---------------------------- MODULE Spec2Model ----------------------------
(***************************************************************************)
(* A model of the ETH perpetual-swap trading bot of src/OKX_AI_ETHv5.py:   *)
(* the decision parser (DeepSeekAI), the exposure gate (OKXDataCollector), *)
(* the executor (OKXTradingExecutor) and the cycle controller              *)
(* (ETHTradingBot), run against a nondeterministic exchange and oracle.    *)
(*                                                                         *)
(* Sizes are in units of 0.0001 ETH, prices in USDT, delays in seconds.    *)
(***************************************************************************)
EXTENDS Integers, Sequences, FiniteSets, TLC

(***************************************************************************)
(* Program constants (src/OKX_AI_ETHv5.py:35-40).                          *)
(***************************************************************************)
MIN_ORDER_SIZE == 10
MAX_ORDER_SIZE == 100
AI_FREQUENCY == 300
CHECK_PENDING_ORDERS_INTERVAL == 30

(***************************************************************************)
(* JSON values as the parser sees them.  A value has a kind; "names" is    *)
(* what Python's `in` finds in it: the keys of an object, the elements of  *)
(* an array, the substrings of a string.  `in` on a number (or true,       *)
(* false, null) raises TypeError, and so does indexing anything but an     *)
(* object by a key.  kind "invalid" stands for text json.loads rejects.    *)
(***************************************************************************)
TopFields == {"trading_decision", "position_management"}
TDFields == {"action", "confidence_level", "reason"}
PMFields == {"position_size", "stop_loss_price", "take_profit_price"}
valid_actions == {"hold", "open_long", "open_short"}
valid_confidences == {"high", "medium", "low"}

REASON_PLACEHOLDER == "market-analysis placeholder"
PARSE_FAILURE_REASON == "parse failed, conservative strategy"

JTd(kind, names, action, conf, reason) ==
  [kind |-> kind, names |-> names, action |-> action,
   confidence_level |-> conf, reason |-> reason]

\* numeric: the three values are JSON numbers (what the ":.6f" and ":.2f"
\* formats and the comparisons of the executor need)
JPm(kind, names, numeric, size, sl, tp) ==
  [kind |-> kind, names |-> names, numeric |-> numeric,
   position_size |-> size, stop_loss_price |-> sl, take_profit_price |-> tp]

JTop(kind, names, td, pm) ==
  [kind |-> kind, names |-> names, trading_decision |-> td,
   position_management |-> pm]

TdObj(action, conf, reason) == JTd("object", TDFields, action, conf, reason)
PmObj(size, sl, tp) == JPm("object", PMFields, TRUE, size, sl, tp)
NoTd == JTd("number", {}, "absent", "absent", "absent")
NoPm == JPm("number", {}, FALSE, 0, 0, 0)
Decision(td, pm) == JTop("object", TopFields, td, pm)
JInvalid == JTop("invalid", {}, NoTd, NoPm)

\* `f in v` raises TypeError when v is not a container
InRaises(v) == v.kind \notin {"object", "array", "string"}
\* `v[f]` raises (TypeError, KeyError) unless v is an object holding key f
IndexRaises(v, f) == v.kind # "object" \/ f \notin v.names

(***************************************************************************)
(* DeepSeekAI._validate_decision_format: every exception is swallowed by   *)
(* the bare except and gives False.                                        *)
(***************************************************************************)
validate_decision_format(decision) ==
  IF InRaises(decision) THEN FALSE
  ELSE IF ~(TopFields \subseteq decision.names) THEN FALSE
  ELSE IF IndexRaises(decision, "trading_decision")
          \/ IndexRaises(decision, "position_management") THEN FALSE
  ELSE LET td == decision.trading_decision
           pm == decision.position_management
       IN  IF InRaises(td) THEN FALSE
           ELSE IF ~(TDFields \subseteq td.names) THEN FALSE
           ELSE IF InRaises(pm) THEN FALSE
           ELSE IF ~(PMFields \subseteq pm.names) THEN FALSE
           ELSE IF IndexRaises(td, "action") THEN FALSE
           ELSE IF td.action \notin valid_actions THEN FALSE
           ELSE IF td.confidence_level \notin valid_confidences THEN FALSE
           ELSE TRUE


(***************************************************************************)
(* The oracle's reply as the parser's four tiers see it:                   *)
(*   is_text      FALSE for a null message content (not a string)          *)
(*   whole        json.loads of the entire string                          *)
(*   matches      json.loads of each cleaned match of the nested-object    *)
(*                pattern, in the order re.findall yields them             *)
(*   action_hits  group(1) of the first match of each action pattern       *)
(*   reason_hits  group(1) of the first match of each reason pattern       *)
(***************************************************************************)
NoMatch == "<no match>"

Response(is_text, whole, matches, action_hits, reason_hits) ==
  [is_text |-> is_text, whole |-> whole, matches |-> matches,
   action_hits |-> action_hits, reason_hits |-> reason_hits]

\* str.lower() on the captured words the model draws
Lower(w) ==
  CASE w = "OPEN_LONG" -> "open_long"
    [] w = "Open_Short" -> "open_short"
    [] w = "HOLD" -> "hold"
    [] OTHER -> w

\* str.strip() on the captured reasons the model draws
Strip(s) == IF s \in {" ", "  "} THEN "" ELSE s

\* the decision _build_standard_decision_from_response starts from
default_decision == Decision(TdObj("hold", "medium", ""), PmObj(0, 0, 0))

\* the decision of the outer handler of _parse_ai_response
parse_failure_decision ==
  Decision(TdObj("hold", "low", PARSE_FAILURE_REASON), PmObj(0, 0, 0))

\* variant: the first match of the first matching pattern is taken unchecked
RECURSIVE extract_action_unchecked(_, _)
extract_action_unchecked(hits, i) ==
  IF i > Len(hits) THEN "hold"
  ELSE IF hits[i] # NoMatch THEN Lower(hits[i])
       ELSE extract_action_unchecked(hits, i + 1)

\* the action loop: the first pattern whose first match, lowercased, is a
\* valid action decides; a pattern that matches an invalid word is skipped
RECURSIVE extract_action(_, _)
extract_action(hits, i) ==
  IF i > Len(hits) THEN "hold"
  ELSE IF hits[i] # NoMatch /\ Lower(hits[i]) \in valid_actions
       THEN Lower(hits[i])
       ELSE extract_action(hits, i + 1)

\* the reason loop: the first pattern whose first match, stripped, is not
\* empty decides; "" when there is none
RECURSIVE extract_reason(_, _)
extract_reason(hits, i) ==
  IF i > Len(hits) THEN ""
  ELSE IF hits[i] # NoMatch /\ Strip(hits[i]) # ""
       THEN Strip(hits[i])
       ELSE extract_reason(hits, i + 1)

\* variant: the heuristic tier fills in the smallest size and a bracket
build_standard_decision_sized(response) ==
  LET action == extract_action(response.action_hits, 1)
  IN  Decision(TdObj(action, "medium", REASON_PLACEHOLDER),
               PmObj(MIN_ORDER_SIZE, 3400, 3600))

(***************************************************************************)
(* DeepSeekAI._build_standard_decision_from_response (the heuristic tier). *)
(***************************************************************************)
build_standard_decision_from_response(response) ==
  LET action == extract_action(response.action_hits, 1)
      found == extract_reason(response.reason_hits, 1)
      reason == IF found = "" THEN REASON_PLACEHOLDER ELSE found
  IN  [default_decision EXCEPT !.trading_decision.action = action,
                               !.trading_decision.reason = reason]

\* the first match that parses and validates, 0 when there is none
RECURSIVE first_valid_match(_, _)
first_valid_match(matches, i) ==
  IF i > Len(matches) THEN 0
  ELSE IF matches[i].kind # "invalid" /\ validate_decision_format(matches[i])
       THEN i
       ELSE first_valid_match(matches, i + 1)

(***************************************************************************)
(* DeepSeekAI._parse_ai_response.  json.loads and re.findall raise         *)
(* TypeError on a reply that is not a string: the first is swallowed by    *)
(* the inner bare except, the second reaches the outer handler.            *)
(***************************************************************************)
parse_ai_response(response) ==
  IF response.is_text /\ response.whole.kind # "invalid"
     /\ validate_decision_format(response.whole)
  THEN response.whole
  ELSE IF ~response.is_text THEN parse_failure_decision
  ELSE LET i == first_valid_match(response.matches, 1)
       IN  IF i > 0 THEN response.matches[i]
           ELSE build_standard_decision_from_response(response)


(***************************************************************************)
(* Bounds of the model.                                                    *)
(***************************************************************************)
\* conditional-order ids the exchange can have pending at once
MaxAlgoIds == 3
\* opening orders the account's margin carries (unfilled plus filled)
MaxPos == 2
\* matches of the nested-object pattern in one reply
MaxMatches == 2

(***************************************************************************)
(* Retry limits (defaults of the executor's parameters).                   *)
(***************************************************************************)
ENTRY_MAX_RETRIES == 5
ENTRY_WAIT_SECONDS == 2
TPSL_MAX_RETRIES == 5
TPSL_RETRY_SECONDS == 5
TPSL_SETTLE_SECONDS == 5

\* _convert_eth_to_contracts: 0.1 ETH per lot, at least 0.01 lot; lots are
\* counted in units of 0.001 lot
CONTRACT_VALUE == 1000
MIN_CONTRACT_SIZE == 10

Ids == 1..MaxAlgoIds
\* avgPx the exchange may report for the position; 0 is a missing avgPx
EntryPrices == {0, 3500}
\* close of the newest candle; 3505 is the fallback of get_kline_data
KlineCloses == {3500}
KLINE_FALLBACK_CLOSE == 3505

VARIABLES
  \* ---- the exchange (instrument ETH-USDT-SWAP of the account)
  exPend,        \* number of ordinary orders accepted and not yet filled
  exPos,         \* number of opening orders filled into the open position
  exAlgo,        \* id -> "free" | "tp" | "sl": pending conditional orders
  \* ---- ETHTradingBot.run_continuously / run_dynamic_cycle
  pc,            \* where the loop is
  has_pending,   \* result of the exposure gate in this cycle
  gate_view,     \* what the gate's getters returned, which requests failed,
                 \* and whether the exchange held an exposure at that time
  gate_failed,   \* a query of the gate failed in this cycle
  current_price,
  ai_decision,
  next_interval, \* value run_dynamic_cycle returned (0: none yet)
  outcome,       \* how the cycle ended
  calls,         \* by kind, 1 when this cycle has sent such a request
  order_on_exposure, \* the market order of this cycle met an exposure
  \* ---- OKXTradingExecutor
  position_size, \* execute_trade's size after clamping
  entry_price,
  attempt,       \* loop index of the running retry loop
  resolver,      \* the call of _get_entry_price_with_retry in this cycle:
                 \* readings made, index of the first valid one (0: none),
                 \* seconds waited, value returned so far (0: None); kept
                 \* until execute_trade goes on to the bracket
  retry_wait,    \* seconds _place_tp_sl_orders_with_retry waited in its
                 \* retry delay
  settle_wait,   \* seconds it waited in its settle delays
  submit_failed, \* a submission of this invocation raised
  algo_log,      \* counts of one call of execute_trade followed on its
                 \* own: conditional order requests, take-profit and
                 \* stop-loss orders accepted, queries of the verification
  success,       \* result of _place_order / execute_trade
  current_tp_sl_orders,
  \* ---- DeepSeekAI._parse_ai_response on its own
  response, parsed,
  brace_value,   \* json.loads of the reply's text from its first '{' to its
                 \* last '}'; the parser of this version never reads it
  \* ---- DeepSeekAI.last_profit, and a second execution that differs from
  \* this one in nothing but its last_profit
  last_profit, twin_profit, twin_decision,
  \* ---- OKXDataCollector.cancel_all_algo_orders on its own
  cancel_run     \* the call: whether its query succeeded, ids pending when
                 \* it began, its target_orders, those still to go, ids a
                 \* cancel request was sent for, success_count, and what it
                 \* returned

exch_vars == <<exPend, exPos, exAlgo>>
cycle_vars == <<pc, has_pending, gate_view, gate_failed, current_price,
                ai_decision, next_interval, outcome, calls, order_on_exposure>>
exec_vars == <<position_size, entry_price, attempt, resolver, retry_wait,
               settle_wait, submit_failed, algo_log,
               success, current_tp_sl_orders>>
parse_vars == <<response, parsed, brace_value>>
profit_vars == <<last_profit, twin_profit, twin_decision>>
cancel_vars == <<cancel_run>>
solo_vars == <<parse_vars, profit_vars, cancel_vars>>
vars == <<exch_vars, cycle_vars, exec_vars, solo_vars>>

NoOrders == [tp_algo_id |-> 0, sl_algo_id |-> 0]
NoCalls == [oracle |-> 0, snapshot |-> 0, market |-> 0, algo |-> 0]
NoView == [pending_orders |-> 0, algo_orders |-> {}, position_size |-> 0,
           queried |-> {}, failed |-> {}, exposed |-> FALSE]
NoResolver == [reads |-> 0, first_valid |-> 0, waited |-> 0, result |-> 0]
NoResponse == Response(FALSE, JInvalid, <<>>, <<>>, <<>>)
NoDecision == JInvalid
NoAlgoLog == [requests |-> 0, tp_placed |-> 0, sl_placed |-> 0, queries |-> 0]
NoCancelRun == [listed |-> FALSE, pending |-> {}, target_orders |-> {},
                todo |-> {}, sent |-> {}, success_count |-> 0,
                result |-> "none"]

\* what the exchange holds for the instrument
PendingAlgo == {id \in Ids : exAlgo[id] # "free"}
Exposed == exPend > 0 \/ exPos > 0 \/ PendingAlgo # {}

(***************************************************************************)
(* OKXDataCollector getters.  Each swallows a failed request (_make_request*)
(* raising for a transport error, an HTTP error or a non-zero code) and    *)
(* answers with its fallback.  ok = FALSE is a failed request.             *)
(***************************************************************************)
\* length of the list get_pending_orders returns
get_pending_orders(ok) == IF ok THEN exPend ELSE 0

\* variant: a failed request is answered with a list that is not empty
get_algo_orders_fail_closed(ok) == IF ok THEN PendingAlgo ELSE {0}

\* ids of the list get_algo_orders returns
get_algo_orders(ok) == IF ok THEN PendingAlgo ELSE {}

flat_position == [position_side |-> "flat", position_size |-> 0,
                  entry_price |-> 0]

\* px is the avgPx the exchange reports while the position is open
get_position_info(ok, px) ==
  IF ok /\ exPos > 0
  THEN [position_side |-> "open", position_size |-> exPos, entry_price |-> px]
  ELSE flat_position

\* variant: the conditional orders are not looked at
has_pending_without_algo(pending_orders, algo_orders, position_info) ==
  IF pending_orders > 0 THEN TRUE
  ELSE IF position_info.position_size > 0 THEN TRUE
  ELSE FALSE

\* variant: the position is not looked at
has_pending_without_position(pending_orders, algo_orders, position_info) ==
  IF pending_orders > 0 THEN TRUE
  ELSE IF Cardinality(algo_orders) > 0 THEN TRUE
  ELSE FALSE

(***************************************************************************)
(* OKXDataCollector.has_pending_orders_or_tpsl on what the getters return. *)
(***************************************************************************)
has_pending_orders_or_tpsl(pending_orders, algo_orders, position_info) ==
  IF pending_orders > 0 THEN TRUE
  ELSE IF Cardinality(algo_orders) > 0 THEN TRUE
  ELSE IF position_info.position_size > 0 THEN TRUE
  ELSE FALSE

\* the sources the gate gets to ask, in order, before it returns
gate_queried(pending_orders, algo_orders) ==
  IF pending_orders > 0 THEN {"pending"}
  ELSE IF Cardinality(algo_orders) > 0 THEN {"pending", "algo"}
  ELSE {"pending", "algo", "position"}

\* variants: the exposed branch returns the long interval; the other branch
\* returns the short one; the other branch returns nothing
cycle_interval_always_long(pending) == AI_FREQUENCY
cycle_interval_always_short(pending) == CHECK_PENDING_ORDERS_INTERVAL
cycle_interval_no_return(pending) ==
  IF pending THEN CHECK_PENDING_ORDERS_INTERVAL ELSE 0

(***************************************************************************)
(* ETHTradingBot.run_dynamic_cycle: the interval it returns.               *)
(***************************************************************************)
\* variant: the short interval also after a cycle that sent its market order
cycle_interval_short_after_order(pending) ==
  IF pending \/ calls.market > 0
  THEN CHECK_PENDING_ORDERS_INTERVAL ELSE AI_FREQUENCY

cycle_interval(pending) ==
  IF pending THEN CHECK_PENDING_ORDERS_INTERVAL ELSE AI_FREQUENCY


(***************************************************************************)
(* DeepSeekAI.get_trading_decision: the request, the parse and the echo of *)
(* the decision sit in one try; whatever raises gives the hold fallback.   *)
(* The echo formats the three numbers of position_management, which raises *)
(* unless position_management is an object holding numbers.                *)
(***************************************************************************)
AI_FAILURE_REASON == "AI processing failed"

ai_failure_decision ==
  Decision(TdObj("hold", "low", AI_FAILURE_REASON), PmObj(0, 0, 0))

echo_raises(d) ==
  \/ IndexRaises(d.position_management, "position_size")
  \/ ~d.position_management.numeric

\* variant: a failed request is not noticed and the reply is parsed anyway
get_trading_decision_unguarded(request_ok, reply) ==
  parse_ai_response(reply)

get_trading_decision(request_ok, reply) ==
  IF ~request_ok THEN ai_failure_decision
  ELSE LET d == parse_ai_response(reply)
       IN  IF echo_raises(d) THEN ai_failure_decision ELSE d

\* variant: the echo of a negative last_profit raises
last_profit_raises_on_loss(profit) == profit + 1 < 0

\* get_trading_decision echoes last_profit with `:.6f` and _build_prompt
\* passes it to json.dumps: both take every float, nan too
last_profit_raises(profit) == FALSE

\* get_trading_decision of an object whose last_profit is profit: the echo
\* and the prompt come before the request, inside the same try
get_trading_decision_of(profit, request_ok, reply) ==
  IF last_profit_raises(profit) THEN ai_failure_decision
  ELSE get_trading_decision(request_ok, reply)

(***************************************************************************)
(* OKXTradingExecutor.execute_trade: clamping and the direction check.     *)
(***************************************************************************)
\* json.loads reads the literal NaN as the float nan, which is a number for
\* the validator and for every format specification; NaN stands for it
\* among the numbers of the model, and every comparison with it is false
NaN == -1
Lt(a, b) == a # NaN /\ b # NaN /\ a < b
Gt(a, b) == a # NaN /\ b # NaN /\ a > b
Le(a, b) == a # NaN /\ b # NaN /\ a <= b
Ge(a, b) == a # NaN /\ b # NaN /\ a >= b

\* variant: a size below the minimum is left as it is
clamp_keeps_small(size) ==
  IF Gt(size, MAX_ORDER_SIZE) THEN MAX_ORDER_SIZE ELSE size

clamp_position_size(size) ==
  IF Lt(size, MIN_ORDER_SIZE) THEN 0
  ELSE IF Gt(size, MAX_ORDER_SIZE) THEN MAX_ORDER_SIZE
  ELSE size

\* variant: the prices are not compared with the entry price
direction_ok_unchecked(action, tp_price, sl_price, entry) == TRUE

direction_ok(action, tp_price, sl_price, entry) ==
  IF action = "open_long"
  THEN ~(Le(tp_price, entry) \/ Ge(sl_price, entry))
  ELSE ~(Ge(tp_price, entry) \/ Le(sl_price, entry))

(***************************************************************************)
(* The replies the oracle gives in the model of the loop.                  *)
(***************************************************************************)
ValidReply(action, size, sl, tp) ==
  Decision(TdObj(action, "high", "breakout"), PmObj(size, sl, tp))

OracleReplies ==
  { \* prose, then the JSON object (found by the nested-object pattern)
    Response(TRUE, JInvalid, <<ValidReply("open_long", 5000, 3400, 3600)>>,
             <<"open_long", "open_long", NoMatch>>,
             <<"breakout", "breakout", NoMatch>>),
    \* the bare JSON object, stop and target swapped for a long
    Response(TRUE, ValidReply("open_long", 50, 3600, 3400), <<>>,
             <<"open_long", "open_long", NoMatch>>,
             <<"breakout", "breakout", NoMatch>>),
    Response(TRUE, ValidReply("open_short", 50, 3600, 3400), <<>>,
             <<"open_short", "open_short", NoMatch>>,
             <<"breakout", "breakout", NoMatch>>),
    Response(TRUE, ValidReply("hold", 50, 3400, 3600), <<>>,
             <<"hold", "hold", NoMatch>>,
             <<"breakout", "breakout", NoMatch>>),
    \* sizes below the minimum: 0 and 0.0005 ETH
    Response(TRUE, ValidReply("open_long", 0, 3400, 3600), <<>>,
             <<"open_long", "open_long", NoMatch>>,
             <<"breakout", "breakout", NoMatch>>),
    Response(TRUE, ValidReply("open_short", 5, 3600, 3400), <<>>,
             <<"open_short", "open_short", NoMatch>>,
             <<"breakout", "breakout", NoMatch>>),
    \* the literal NaN as the size; as the take-profit price
    Response(TRUE, ValidReply("open_long", NaN, 3400, 3600), <<>>,
             <<"open_long", "open_long", NoMatch>>,
             <<"breakout", "breakout", NoMatch>>),
    Response(TRUE, ValidReply("open_long", 50, 3400, NaN), <<>>,
             <<"open_long", "open_long", NoMatch>>,
             <<"breakout", "breakout", NoMatch>>),
    \* prose only: the heuristic tier finds an action
    Response(TRUE, JInvalid, <<>>, <<NoMatch, "OPEN_LONG", NoMatch>>,
             <<NoMatch, "breakout", NoMatch>>),
    \* the numbers given as strings
    Response(TRUE,
             Decision(TdObj("open_long", "high", "breakout"),
                      JPm("object", PMFields, FALSE, 0, 0, 0)),
             <<>>, <<"open_long", "open_long", NoMatch>>,
             <<"breakout", "breakout", NoMatch>>) }

(***************************************************************************)
(* The cycle.                                                              *)
(***************************************************************************)
EndCycle(how, ok) ==
  /\ pc' = "sleep"
  /\ next_interval' = cycle_interval(has_pending)
  /\ outcome' = how
  /\ success' = ok

\* run_dynamic_cycle, step 1: the exposure gate
Gate ==
  /\ pc = "start"
  /\ \E pend_ok, algo_ok, pos_ok \in BOOLEAN :
       LET pending_orders == get_pending_orders(pend_ok)
           algo_orders == get_algo_orders(algo_ok)
           position_info == get_position_info(pos_ok, 3500)
           queried == gate_queried(pending_orders, algo_orders)
           failed == {q \in queried : \/ q = "pending" /\ ~pend_ok
                                      \/ q = "algo" /\ ~algo_ok
                                      \/ q = "position" /\ ~pos_ok}
           result == has_pending_orders_or_tpsl(pending_orders, algo_orders,
                                                position_info)
       IN  /\ has_pending' = result
           /\ gate_view' =
                [pending_orders |-> pending_orders,
                 algo_orders |-> IF "algo" \in queried
                                 THEN algo_orders ELSE {},
                 position_size |-> IF "position" \in queried
                                   THEN position_info.position_size ELSE 0,
                 queried |-> queried, failed |-> failed, exposed |-> Exposed]
           /\ gate_failed' = (failed # {})
           /\ IF result
              THEN /\ pc' = "sleep"
                   /\ next_interval' = cycle_interval(result)
                   /\ outcome' = "exposed"
              ELSE /\ pc' = "snapshot"
                   /\ UNCHANGED <<next_interval, outcome>>
  /\ UNCHANGED <<exch_vars, exec_vars, solo_vars, current_price, ai_decision,
                 calls, order_on_exposure>>

\* steps 2-4: get_kline_data, get_account_balance, get_position_info
Snapshot ==
  /\ pc = "snapshot"
  /\ \E kline_ok \in BOOLEAN : \E close \in KlineCloses :
       current_price' = IF kline_ok THEN close ELSE KLINE_FALLBACK_CLOSE
  /\ calls' = [calls EXCEPT !.snapshot = 1]
  /\ gate_view' = NoView
  /\ pc' = "oracle"
  /\ UNCHANGED <<exch_vars, exec_vars, solo_vars, has_pending, gate_failed,
                 ai_decision, next_interval, outcome, order_on_exposure>>

\* step 5: the oracle call
Oracle ==
  /\ pc = "oracle"
  /\ \E request_ok \in BOOLEAN : \E reply \in OracleReplies :
       ai_decision' = get_trading_decision_of(last_profit, request_ok, reply)
  /\ calls' = [calls EXCEPT !.oracle = 1]
  /\ pc' = "execute"
  /\ UNCHANGED <<exch_vars, exec_vars, solo_vars, has_pending, gate_view,
                 gate_failed, current_price, next_interval, outcome,
                 order_on_exposure>>


\* the exchange can take one more opening order
CanOpen == exPend + exPos < MaxPos

\* ids the exchange can give to a new conditional order: not pending, and
\* not the id of an order the executor still records
FreeIds ==
  {id \in Ids : /\ exAlgo[id] = "free"
                /\ id # current_tp_sl_orders.tp_algo_id
                /\ id # current_tp_sl_orders.sl_algo_id}

\* variant: the stop-loss request follows a rejected take-profit request
submit_requests_always_both(tp_ok) == 2

\* requests _place_tp_sl_order has sent when it returns or raises: the
\* stop-loss request follows the take-profit request only if that returned
submit_requests(tp_ok) == IF tp_ok THEN 2 ELSE 1

\* variant: the orders of an attempt take the place of the pending ones
NewIds_replacing_pending(replaces_record) == Ids

\* ids the exchange can give to the orders of one attempt: when the attempt
\* replaces the executor's record, the ids of the old record are as good as
\* new ones once their orders have left the book
NewIds(replaces_record) ==
  IF replaces_record THEN {id \in Ids : exAlgo[id] = "free"} ELSE FreeIds

MinId(S) == CHOOSE x \in S : \A y \in S : x <= y

(***************************************************************************)
(* OKXTradingExecutor._convert_eth_to_contracts and _place_order.          *)
(***************************************************************************)
\* variant: the minimum lot size is not looked at
convert_eth_to_contracts_unchecked(eth_size) ==
  [raises |-> FALSE,
   contracts |-> IF eth_size = NaN THEN NaN
                 ELSE (eth_size * 1000) \div CONTRACT_VALUE]

\* eth_size / CONTRACT_VALUE, ValueError when it is below the minimum
convert_eth_to_contracts(eth_size) ==
  LET contracts == IF eth_size = NaN THEN NaN
                   ELSE (eth_size * 1000) \div CONTRACT_VALUE
  IN  [raises |-> Lt(contracts, MIN_CONTRACT_SIZE), contracts |-> contracts]

\* _place_order: whether the request went out, and the value returned; the
\* ValueError of an invalid action or of the conversion and the error of
\* the request are caught and give False
place_order(action, eth_size, request_ok) ==
  IF action \notin {"open_long", "open_short"}
  THEN [sent |-> FALSE, result |-> FALSE]
  ELSE IF convert_eth_to_contracts(eth_size).raises
  THEN [sent |-> FALSE, result |-> FALSE]
  ELSE [sent |-> TRUE, result |-> request_ok]

\* variant: execute_trade goes on after the order whatever it returned
order_placed_ignored(placed) == TRUE

\* execute_trade, `if success:` after _place_order
order_placed(placed) == placed

\* step 6: execute_trade up to and including _place_order
ExecuteTrade ==
  /\ pc = "execute"
  /\ LET action == ai_decision.trading_decision.action
         size == clamp_position_size(ai_decision.position_management.position_size)
     IN  /\ position_size' = size
         /\ IF action = "hold"
            THEN /\ EndCycle("hold", TRUE)
                 /\ UNCHANGED <<exch_vars, calls, order_on_exposure>>
            ELSE IF action \notin {"open_long", "open_short"}
            THEN /\ EndCycle("unknown", FALSE)
                 /\ UNCHANGED <<exch_vars, calls, order_on_exposure>>
            ELSE IF ~Gt(size, 0)
            THEN /\ EndCycle("zero", TRUE)
                 /\ UNCHANGED <<exch_vars, calls, order_on_exposure>>
            ELSE \E request_ok \in BOOLEAN :
                   LET placed == place_order(action, size, request_ok)
                   IN  /\ (placed.sent /\ placed.result) => CanOpen
                       /\ calls' = [calls EXCEPT
                                      !.market = @ + IF placed.sent THEN 1 ELSE 0]
                       /\ order_on_exposure' = (placed.sent /\ Exposed)
                       /\ exPend' = IF placed.sent /\ placed.result
                                    THEN exPend + 1 ELSE exPend
                       /\ UNCHANGED <<exPos, exAlgo>>
                       /\ IF order_placed(placed.result)
                          THEN /\ success' = placed.result
                               /\ pc' = "entry"
                               /\ UNCHANGED <<next_interval, outcome>>
                          ELSE EndCycle("rejected", placed.result)
  /\ UNCHANGED <<solo_vars, has_pending, gate_view, gate_failed,
                 current_price, ai_decision, entry_price, attempt, resolver,
                 retry_wait, settle_wait, submit_failed,
                 algo_log,
                 current_tp_sl_orders>>

\* variant: the loop of the resolver reads on after a valid reading
entry_poll_again_after_valid(valid, n) == n < ENTRY_MAX_RETRIES - 1

\* _get_entry_price_with_retry: a reading that is not valid is followed by
\* the wait and a further reading while attempts remain
entry_poll_again(valid, n) == ~valid /\ n < ENTRY_MAX_RETRIES - 1

\* variant: an unresolved entry price is used as it is
entry_price_without_fallback(result, price) == result

\* execute_trade: `if entry_price is None: entry_price = current_price`
entry_price_or_current(result, price) == IF result = 0 THEN price ELSE result

\* _get_entry_price_with_retry, one reading of the position; when the loop
\* ends, execute_trade's fallback and its direction check
GetEntryPrice ==
  /\ pc = "entry"
  /\ \E ok \in BOOLEAN : \E px \in EntryPrices :
       LET position_info == get_position_info(ok, px)
           valid == position_info.position_size > 0
                    /\ position_info.entry_price > 0
           again == entry_poll_again(valid, attempt)
           result == IF valid /\ resolver.first_valid = 0
                     THEN position_info.entry_price ELSE resolver.result
           entry == entry_price_or_current(result, current_price)
           pm == ai_decision.position_management
       IN  /\ resolver' =
                [reads |-> resolver.reads + 1,
                 first_valid |-> IF valid /\ resolver.first_valid = 0
                                 THEN resolver.reads + 1
                                 ELSE resolver.first_valid,
                 waited |-> resolver.waited
                            + IF again THEN ENTRY_WAIT_SECONDS ELSE 0,
                 result |-> result]
           /\ IF again
              THEN /\ attempt' = attempt + 1
                   /\ UNCHANGED <<pc, entry_price, next_interval, outcome,
                                  success>>
              ELSE /\ entry_price' = entry
                   /\ attempt' = 0
                   /\ IF direction_ok(ai_decision.trading_decision.action,
                                      pm.take_profit_price, pm.stop_loss_price,
                                      entry)
                      THEN /\ pc' = "bracket"
                           /\ UNCHANGED <<next_interval, outcome, success>>
                      ELSE EndCycle("invalid", FALSE)
  /\ UNCHANGED <<exch_vars, solo_vars, has_pending, gate_view, gate_failed,
                 current_price, ai_decision, calls, order_on_exposure,
                 position_size, retry_wait, settle_wait, submit_failed,
                 algo_log,
                 current_tp_sl_orders>>

\* variant: the last attempt is not made
tpsl_retry_again_one_less(n) == n < TPSL_MAX_RETRIES - 2

\* variant: an attempt that failed is the last one
tpsl_retry_again_never(n) == FALSE

\* variant: one more attempt than max_retries
tpsl_retry_again_one_more(n) == n < TPSL_MAX_RETRIES

\* _place_tp_sl_orders_with_retry: `if attempt < max_retries - 1`
tpsl_retry_again(n) == n < TPSL_MAX_RETRIES - 1

\* end of one attempt of _place_tp_sl_orders_with_retry that did not verify
RetryOrFail ==
  IF tpsl_retry_again(attempt)
  THEN /\ attempt' = attempt + 1
       /\ retry_wait' = retry_wait + TPSL_RETRY_SECONDS
       /\ pc' = "bracket"
       /\ UNCHANGED <<next_interval, outcome, success>>
  ELSE /\ UNCHANGED <<attempt, retry_wait>>
       /\ EndCycle("failed", success)

\* _place_tp_sl_order within one attempt: the take-profit request, then the
\* stop-loss request; a rejected request raises and ends the attempt; after
\* two accepted requests the loop sleeps its settle delay; the frame of the
\* entry-price resolver is gone by now
SubmitAttempt(tp_ok, sl_ok) ==
  /\ pc = "bracket"
  /\ tp_ok => NewIds(sl_ok) # {}
  /\ LET tp_algo_id == MinId(NewIds(sl_ok))
          IN  /\ sl_ok => tp_ok /\ NewIds(sl_ok) \ {tp_algo_id} # {}
              /\ LET sl_algo_id == MinId(NewIds(sl_ok) \ {tp_algo_id})
                 IN  IF tp_ok /\ sl_ok
                     THEN /\ exAlgo' = [exAlgo EXCEPT ![tp_algo_id] = "tp",
                                                      ![sl_algo_id] = "sl"]
                          /\ calls' = [calls EXCEPT !.algo = 1]
                          /\ current_tp_sl_orders' =
                               [tp_algo_id |-> tp_algo_id,
                                sl_algo_id |-> sl_algo_id]
                          /\ settle_wait' = settle_wait + TPSL_SETTLE_SECONDS
                          /\ pc' = "verify"
                          /\ UNCHANGED <<attempt, retry_wait, submit_failed,
                                         next_interval, outcome, success>>
                     ELSE /\ exAlgo' = IF tp_ok
                                       THEN [exAlgo EXCEPT ![tp_algo_id] = "tp"]
                                       ELSE exAlgo
                          /\ calls' = [calls EXCEPT !.algo = 1]
                          /\ submit_failed' = TRUE
                          /\ UNCHANGED <<current_tp_sl_orders, settle_wait>>
                          /\ RetryOrFail
  /\ resolver' = NoResolver
  /\ UNCHANGED <<exPend, exPos, solo_vars, has_pending, gate_view,
                 gate_failed, current_price, ai_decision, order_on_exposure,
                 position_size, entry_price>>

PlaceTpSl ==
  /\ \E tp_ok, sl_ok \in BOOLEAN : SubmitAttempt(tp_ok, sl_ok)
  /\ UNCHANGED algo_log

\* the same step, counted: what the attempt sent and what was accepted
PlaceTpSlLogged ==
  \E tp_ok, sl_ok \in BOOLEAN :
    /\ SubmitAttempt(tp_ok, sl_ok)
    /\ algo_log' =
         [algo_log EXCEPT
            !.requests = @ + submit_requests(tp_ok),
            !.tp_placed = IF tp_ok THEN @ + 1 ELSE @,
            !.sl_placed = IF tp_ok /\ sl_ok THEN @ + 1 ELSE @]

\* variant: the verification looks for the take-profit order only
verify_tp_only(algo_ids, algo_orders) ==
  \E id \in algo_orders : id = algo_ids.tp_algo_id

\* _verify_tp_sl_orders_exist on a reply of get_algo_orders
verify_tp_sl_orders_exist(algo_ids, algo_orders) ==
  LET tp_exists == \E id \in algo_orders : id = algo_ids.tp_algo_id
      sl_exists == \E id \in algo_orders : id = algo_ids.sl_algo_id
  IN  tp_exists /\ sl_exists

\* the verification of one attempt, after the settle delay
VerifyAttempt ==
  /\ pc = "verify"
  /\ \E ok \in BOOLEAN :
       IF verify_tp_sl_orders_exist(current_tp_sl_orders, get_algo_orders(ok))
       THEN /\ UNCHANGED <<attempt, retry_wait>>
            /\ EndCycle("protected", success)
       ELSE RetryOrFail
  /\ UNCHANGED <<exch_vars, solo_vars, has_pending, gate_view, gate_failed,
                 current_price, ai_decision, calls, order_on_exposure,
                 position_size, entry_price, resolver, current_tp_sl_orders,
                 settle_wait, submit_failed>>

VerifyTpSl == VerifyAttempt /\ UNCHANGED algo_log

\* the same step, counted: one query of the pending conditional orders
VerifyTpSlLogged ==
  /\ VerifyAttempt
  /\ algo_log' = [algo_log EXCEPT !.queries = @ + 1]


\* variant: the loop is left after a cycle whose trade failed
after_sleep_halts_on_failure(how) ==
  IF how \in {"rejected", "invalid", "failed"} THEN "halted" ELSE "start"

\* variant: the loop is left after a cycle that could not protect its
\* position
after_sleep_halts_when_unprotected(how) ==
  IF how = "failed" THEN "halted" ELSE "start"

\* run_continuously is `while True`: however the cycle ended, the loop goes
\* on with the next cycle
after_sleep(how) == "start"

\* run_continuously: time.sleep(next_interval), then the next cycle; the
\* locals of the finished cycle are gone
Sleep ==
  /\ pc = "sleep"
  /\ pc' = after_sleep(outcome)
  /\ has_pending' = FALSE
  /\ gate_view' = NoView
  /\ gate_failed' = FALSE
  /\ current_price' = 0
  /\ ai_decision' = NoDecision
  /\ outcome' = "none"
  /\ calls' = NoCalls
  /\ order_on_exposure' = FALSE
  /\ position_size' = 0
  /\ entry_price' = 0
  /\ success' = FALSE
  /\ next_interval' = 0
  /\ attempt' = 0
  /\ resolver' = NoResolver
  /\ retry_wait' = 0
  /\ settle_wait' = 0
  /\ submit_failed' = FALSE
  /\ algo_log' = NoAlgoLog
  /\ UNCHANGED <<exch_vars, solo_vars, current_tp_sl_orders>>

\* KeyboardInterrupt: run_continuously leaves its loop and the process ends,
\* its objects with it
Interrupt ==
  /\ pc \in {"start", "snapshot", "oracle", "execute", "entry", "bracket",
             "verify", "sleep"}
  /\ pc' = "stopped"
  /\ has_pending' = FALSE
  /\ gate_view' = NoView
  /\ gate_failed' = FALSE
  /\ current_price' = 0
  /\ ai_decision' = NoDecision
  /\ next_interval' = 0
  /\ outcome' = "none"
  /\ calls' = NoCalls
  /\ order_on_exposure' = FALSE
  /\ position_size' = 0
  /\ entry_price' = 0
  /\ attempt' = 0
  /\ resolver' = NoResolver
  /\ retry_wait' = 0
  /\ settle_wait' = 0
  /\ submit_failed' = FALSE
  /\ algo_log' = NoAlgoLog
  /\ success' = FALSE
  /\ current_tp_sl_orders' = NoOrders
  /\ UNCHANGED <<exch_vars, solo_vars>>

Running == pc \notin {"stopped", "parser"}

(***************************************************************************)
(* The exchange.                                                           *)
(***************************************************************************)
\* an accepted market order is filled
Fill ==
  /\ Running
  /\ exPend > 0
  /\ exPend' = exPend - 1
  /\ exPos' = exPos + 1
  /\ UNCHANGED <<exAlgo, cycle_vars, exec_vars, solo_vars>>

\* a pending conditional order leaves the book: triggered, or cancelled
AlgoGone ==
  /\ Running
  /\ \E id \in PendingAlgo : exAlgo' = [exAlgo EXCEPT ![id] = "free"]
  /\ UNCHANGED <<exPend, exPos, cycle_vars, exec_vars, solo_vars>>

\* the position is closed: by a triggered order, by liquidation, by hand
PositionClosed ==
  /\ Running
  /\ exPos > 0
  /\ exPos' = 0
  /\ UNCHANGED <<exPend, exAlgo, cycle_vars, exec_vars, solo_vars>>

(***************************************************************************)
(* The loop against the exchange.                                          *)
(***************************************************************************)
Init ==
  /\ exPend = 0
  /\ exPos \in {0, 1}
  /\ exAlgo = [id \in Ids |-> "free"]
  /\ pc = "start"
  /\ has_pending = FALSE
  /\ gate_view = NoView
  /\ gate_failed = FALSE
  /\ current_price = 0
  /\ ai_decision = NoDecision
  /\ next_interval = 0
  /\ outcome = "none"
  /\ calls = NoCalls
  /\ order_on_exposure = FALSE
  /\ position_size = 0
  /\ entry_price = 0
  /\ attempt = 0
  /\ resolver = NoResolver
  /\ retry_wait = 0
  /\ settle_wait = 0
  /\ submit_failed = FALSE
  /\ algo_log = NoAlgoLog
  /\ success = FALSE
  /\ current_tp_sl_orders = NoOrders
  /\ response = NoResponse
  /\ parsed = NoDecision
  /\ brace_value = JInvalid
  /\ last_profit = 0
  /\ twin_profit = 0
  /\ twin_decision = NoDecision
  /\ cancel_run = NoCancelRun

BotNext ==
  \/ Gate
  \/ Snapshot
  \/ Oracle
  \/ ExecuteTrade
  \/ GetEntryPrice
  \/ PlaceTpSl
  \/ VerifyTpSl
  \/ Sleep

EnvNext ==
  \/ Fill
  \/ AlgoGone
  \/ PositionClosed

Next == BotNext \/ EnvNext \/ Interrupt

Spec == Init /\ [][Next]_vars

\* the interpreter keeps running the loop's thread
FairSpec == Spec /\ WF_vars(BotNext)


(***************************************************************************)
(* The parser on its own: every reply of a bounded set is parsed.          *)
(***************************************************************************)
TdValues ==
  { TdObj("open_long", "high", "breakout"),
    TdObj("close_long", "high", "breakout"),
    TdObj("hold", "sure", "breakout"),
    JTd("object", TDFields \ {"reason"}, "open_short", "low", "absent"),
    JTd("array", TDFields, "absent", "absent", "absent") }

PmValues ==
  { PmObj(5, 3400, 3600),
    JPm("object", PMFields \ {"take_profit_price"}, TRUE, 5, 3400, 0),
    JPm("object", PMFields, FALSE, 0, 0, 0),
    JPm("array", PMFields, FALSE, 0, 0, 0),
    JPm("string", PMFields, FALSE, 0, 0, 0),
    JPm("number", {}, FALSE, 0, 0, 0) }

\* json.loads of the whole reply
WholeValues ==
  {JInvalid, JTop("number", {}, NoTd, NoPm), JTop("array", TopFields, NoTd, NoPm)}
  \cup {Decision(td, PmObj(5, 3400, 3600)) : td \in TdValues}
  \cup {Decision(TdObj("open_long", "high", "breakout"), pm) : pm \in PmValues}
  \cup {JTop("object", {"trading_decision"},
             TdObj("open_long", "high", "breakout"), NoPm)}

\* json.loads of a match of the nested-object pattern: rejected, or an
\* object whose two members are objects
MatchValues ==
  { JInvalid,
    ValidReply("open_short", 5, 3600, 3400),
    Decision(TdObj("open_long", "sure", "breakout"), PmObj(5, 3400, 3600)) }

SeqsUpTo(S, n) == UNION {[1..k -> S] : k \in 0..n}

ActionHits ==
  {<<a, b, c>> : a \in {NoMatch, "OPEN_LONG", "close_long"},
                 b \in {NoMatch, "Open_Short", "close_long"},
                 c \in {NoMatch, "open_long"}}

\* the first reason pattern may capture the empty string, the others at
\* least one character, which may be blank
ReasonHits ==
  {<<a, b, c>> : a \in {NoMatch, "", "breakout"},
                 b \in {NoMatch, " ", "momentum"},
                 c \in {NoMatch, "rally"}}

\* what the text between the first '{' and the last '}' parses to: a reply
\* that is one JSON object is that text; any other reply may hold an object
\* the nested-object pattern does not match (members in the other order,
\* a further member, a blank before the comma) or no object at all
BraceValues(r) ==
  IF r.is_text /\ r.whole.kind = "object" THEN {r.whole}
  ELSE IF ~r.is_text THEN {JInvalid}
  ELSE {JInvalid, ValidReply("open_long", 5, 3400, 3600)}

Replies ==
  {Response(FALSE, JInvalid, <<>>, <<>>, <<>>)}
  \cup {Response(TRUE, w, m, a, r) :
          w \in WholeValues, m \in SeqsUpTo(MatchValues, MaxMatches),
          a \in ActionHits, r \in ReasonHits}

ReceiveReply ==
  /\ pc = "parser"
  /\ response = NoResponse /\ parsed = NoDecision
  /\ \E r \in Replies : \E b \in BraceValues(r) :
       /\ response' = r
       /\ brace_value' = b
  /\ UNCHANGED <<parsed, exch_vars, cycle_vars, exec_vars, profit_vars,
                 cancel_vars>>

ParseReply ==
  /\ pc = "parser"
  /\ parsed = NoDecision
  /\ parsed' = parse_ai_response(response)
  /\ UNCHANGED <<response, brace_value, exch_vars, cycle_vars, exec_vars,
                 profit_vars, cancel_vars>>

ParseInit ==
  /\ exPend = 0
  /\ exPos = 0
  /\ exAlgo = [id \in Ids |-> "free"]
  /\ pc = "parser"
  /\ has_pending = FALSE
  /\ gate_view = NoView
  /\ gate_failed = FALSE
  /\ current_price = 0
  /\ ai_decision = NoDecision
  /\ next_interval = 0
  /\ outcome = "none"
  /\ calls = NoCalls
  /\ order_on_exposure = FALSE
  /\ position_size = 0
  /\ entry_price = 0
  /\ attempt = 0
  /\ resolver = NoResolver
  /\ retry_wait = 0
  /\ settle_wait = 0
  /\ submit_failed = FALSE
  /\ algo_log = NoAlgoLog
  /\ success = FALSE
  /\ current_tp_sl_orders = NoOrders
  /\ response = NoResponse
  /\ parsed = NoDecision
  /\ brace_value = JInvalid
  /\ last_profit = 0
  /\ twin_profit = 0
  /\ twin_decision = NoDecision
  /\ cancel_run = NoCancelRun

ParseNext == ReceiveReply \/ ParseReply

ParseSpec == ParseInit /\ [][ParseNext]_vars


(***************************************************************************)
(* Properties.                                                             *)
(***************************************************************************)
TpPending == {id \in Ids : exAlgo[id] = "tp"}
SlPending == {id \in Ids : exAlgo[id] = "sl"}
GateReturned == gate_view.queried # {}
ViewEmpty ==
  /\ gate_view.pending_orders = 0
  /\ gate_view.algo_orders = {}
  /\ gate_view.position_size = 0

\* C1 as stated: a cycle never sends its market order while the exchange
\* holds a position, an unfilled order or a pending conditional order,
\* whatever the gateway answers (failed queries included).
C1_NoOrderOnExposure == calls.market = 1 => ~order_on_exposure

\* C1 amended: in a cycle in which no query of the exposure gate failed, the
\* market order is never sent while the exchange holds an exposure.
C1_NoOrderOnExposureUnlessGateFailed ==
  (calls.market = 1 /\ ~gate_failed) => ~order_on_exposure

C1_Witness ==
  /\ pc = "entry"
  /\ calls.market = 1
  /\ ~gate_failed
  /\ ~order_on_exposure
  /\ exPend > 0

\* C2: the conditional orders of the bot pending on the exchange are at most
\* one take-profit and at most one stop-loss, in every state, the retry loop
\* of the bracket included.
C2_AtMostOneBracket ==
  Cardinality(TpPending) <= 1 /\ Cardinality(SlPending) <= 1

\* C3: a cycle whose gate returned true makes no oracle call, no snapshot
\* query, sends no order and no conditional order, and returns 30.
C3_ExposedCycleSkips ==
  has_pending =>
    /\ pc = "sleep"
    /\ next_interval = CHECK_PENDING_ORDERS_INTERVAL
    /\ next_interval = 30
    /\ calls = NoCalls

C3_Witness ==
  /\ has_pending
  /\ pc = "sleep"
  /\ outcome = "exposed"
  /\ gate_view.exposed

\* C4: the gate returns true iff one of the three sources it read is
\* non-empty (unfilled orders, conditional orders, position size); when no
\* query failed that is: iff the exchange holds an exposure.
C4_GateIff ==
  GateReturned =>
    /\ has_pending <=> ~ViewEmpty
    /\ ~has_pending => gate_view.queried = {"pending", "algo", "position"}
    /\ gate_view.failed = {} => (has_pending <=> gate_view.exposed)

C4_Witness ==
  /\ GateReturned
  /\ has_pending
  /\ gate_view.pending_orders = 0
  /\ gate_view.algo_orders = {}
  /\ gate_view.position_size > 0

\* C5: a failed query of the gate counts as an empty source; when no other
\* source reports an exposure the gate returns false and the cycle goes on
\* towards the oracle call.
C5_FailOpen ==
  (GateReturned /\ gate_view.failed # {}) =>
    /\ "pending" \in gate_view.failed => gate_view.pending_orders = 0
    /\ "algo" \in gate_view.failed => gate_view.algo_orders = {}
    /\ "position" \in gate_view.failed => gate_view.position_size = 0
    /\ ViewEmpty => (~has_pending /\ pc = "snapshot")

C5_Witness ==
  /\ GateReturned
  /\ gate_view.failed # {}
  /\ gate_view.exposed
  /\ ~has_pending
  /\ pc = "snapshot"

\* C6: however gateway queries, the oracle call, parsing, the order, the
\* entry-price polling and the bracket fail, a cycle that starts ends by
\* returning an interval (unless the process is interrupted), and the
\* interval a cycle returns is 30 or 300.
C6_CycleReturnsInterval ==
  /\ [](pc = "sleep" => next_interval \in {30, 300})
  /\ (pc = "start") ~>
       (pc = "stopped" \/ (pc = "sleep" /\ next_interval \in {30, 300}))

C6_Witness ==
  /\ pc = "sleep"
  /\ gate_failed
  /\ outcome = "failed"
  /\ next_interval = 300

\* C7: a cycle whose gate returned false returns 300 in every outcome: hold,
\* size 0, order rejected, direction check failed, bracket Protected, bracket
\* Failed.
C7_IdleCycleLongInterval ==
  (pc = "sleep" /\ ~has_pending) =>
    /\ outcome \in {"hold", "zero", "rejected", "invalid", "protected",
                    "failed"}
    /\ next_interval = AI_FREQUENCY
    /\ next_interval = 300

C7_Witness ==
  /\ pc = "sleep"
  /\ ~has_pending
  /\ outcome = "protected"
  /\ next_interval = 300

\* C8: every cycle that starts ends, and after every cycle, whatever it met,
\* the loop starts a further cycle unless it is interrupted.
C8_LoopNeverHalts ==
  /\ (pc = "start") ~> (pc \in {"sleep", "stopped"})
  /\ (pc = "sleep") ~> (pc \in {"start", "stopped"})

C8_Witness ==
  /\ pc = "start"
  /\ Cardinality(TpPending) = 2
  /\ exPos > 0


\* the schema of a Decision: both objects, their six members, the two
\* enumerations
SchemaValid(d) ==
  /\ d.kind = "object"
  /\ TopFields \subseteq d.names
  /\ d.trading_decision.kind = "object"
  /\ TDFields \subseteq d.trading_decision.names
  /\ d.position_management.kind = "object"
  /\ PMFields \subseteq d.position_management.names
  /\ d.trading_decision.action \in valid_actions
  /\ d.trading_decision.confidence_level \in valid_confidences

WasParsed == pc = "parser" /\ parsed # NoDecision

\* neither the whole-string parse nor a nested-object match is accepted
JsonTiersFail(r) ==
  /\ ~(r.whole.kind # "invalid" /\ validate_decision_format(r.whole))
  /\ first_valid_match(r.matches, 1) = 0

\* no action pattern captures a valid action
NoValidActionHit(r) ==
  \A i \in 1..Len(r.action_hits) :
    r.action_hits[i] = NoMatch \/ Lower(r.action_hits[i]) \notin valid_actions

\* the non-empty reasons the patterns capture
ReasonsFound(r) ==
  {Strip(r.reason_hits[i]) : i \in 1..Len(r.reason_hits)} \ {NoMatch, ""}

\* C9: whatever the reply, the parser returns a schema-valid Decision; when
\* no tier extracts anything, its action is hold and its position_size 0.
C9_ParserSchemaValid ==
  WasParsed =>
    /\ SchemaValid(parsed)
    /\ (JsonTiersFail(response) /\ NoValidActionHit(response)) =>
         /\ parsed.trading_decision.action = "hold"
         /\ parsed.position_management.position_size = 0

\* C10 as stated: when no tier extracts a valid action from the text, the
\* parser returns the safe default: hold, low, the parse-failure marker,
\* 0, 0, 0.
C10_SafeDefaultWhenNothingExtracted ==
  (WasParsed /\ response.is_text /\ JsonTiersFail(response)
             /\ NoValidActionHit(response))
    => parsed = parse_failure_decision

\* C10 amended: in that case the parser returns hold with confidence medium,
\* position_size 0 and both prices 0, and as reason a reason found in the
\* text or else the generic placeholder; the parse-failure default (low) is
\* returned only for a reply that is not a string.
C10_HeuristicDefaultWhenNothingExtracted ==
  /\ (WasParsed /\ response.is_text /\ JsonTiersFail(response)
                /\ NoValidActionHit(response)) =>
       /\ parsed.trading_decision.action = "hold"
       /\ parsed.trading_decision.confidence_level = "medium"
       /\ parsed.position_management = PmObj(0, 0, 0)
       /\ IF ReasonsFound(response) = {}
          THEN parsed.trading_decision.reason = REASON_PLACEHOLDER
          ELSE parsed.trading_decision.reason \in ReasonsFound(response)
  /\ (WasParsed /\ parsed = parse_failure_decision) => ~response.is_text

C10_Witness ==
  /\ WasParsed
  /\ response.is_text
  /\ JsonTiersFail(response)
  /\ response.action_hits = <<"close_long", NoMatch, NoMatch>>
  /\ ReasonsFound(response) = {}
  /\ parsed.trading_decision.reason = REASON_PLACEHOLDER

\* C11: the parser tries whole-string parse, nested-object scan, the text
\* from the first '{' to the last '}', then the heuristics, and the first
\* schema-valid result wins: when the first two fail and the text from the
\* first '{' to the last '}' is a valid Decision, that Decision is returned.
C11_BraceSubstringWins ==
  (WasParsed /\ response.is_text /\ JsonTiersFail(response)
             /\ brace_value.kind # "invalid"
             /\ validate_decision_format(brace_value))
    => parsed = brace_value


\* the decision execute_trade works on in this cycle
Action == ai_decision.trading_decision.action
TpPrice == ai_decision.position_management.take_profit_price
SlPrice == ai_decision.position_management.stop_loss_price
DecidedSize == ai_decision.position_management.position_size
Executed == pc \in {"entry", "bracket", "verify", "sleep"} /\ ~has_pending

\* C12: the size execute_trade uses after clamping is exactly 0 or lies
\* within [MIN_ORDER_SIZE, MAX_ORDER_SIZE], for every decision, and every
\* market order submitted carries a size within that interval.
C12_ClampedSizeInRange ==
  /\ position_size = 0
       \/ (Ge(position_size, MIN_ORDER_SIZE) /\ Le(position_size, MAX_ORDER_SIZE))
  /\ calls.market > 0 =>
       (Ge(position_size, MIN_ORDER_SIZE) /\ Le(position_size, MAX_ORDER_SIZE))

\* the direction invariant of a bracket against an entry price
DirectionHolds(action, tp_price, sl_price, entry) ==
  /\ action = "open_long" => (Gt(tp_price, entry) /\ Lt(sl_price, entry))
  /\ action = "open_short" => (Lt(tp_price, entry) /\ Gt(sl_price, entry))

\* C13: every conditional order request execute_trade issues satisfies the
\* direction invariant against the entry price it used, with strict
\* inequalities, and the check is made before any such request is sent.
C13_BracketDirection ==
  (pc \in {"bracket", "verify"} \/ calls.algo > 0) =>
    /\ Action \in {"open_long", "open_short"}
    /\ DirectionHolds(Action, TpPrice, SlPrice, entry_price)


\* C14: if the action is hold, or the size is 0 after clamping (the decided
\* size is below the minimum), the cycle submits no market order and no
\* conditional order, performs no entry-price resolution and no direction
\* check, execute_trade returns True, and the cycle returns the long interval.
C14_HoldOrZeroSubmitsNothing ==
  (Executed /\ (Action = "hold" \/ position_size = 0
                \/ Lt(DecidedSize, MIN_ORDER_SIZE))) =>
    /\ pc = "sleep"
    /\ outcome \in {"hold", "zero"}
    /\ calls.market = 0
    /\ calls.algo = 0
    /\ resolver = NoResolver
    /\ entry_price = 0
    /\ success
    /\ next_interval = AI_FREQUENCY

C14_Witness ==
  /\ pc = "sleep"
  /\ outcome = "zero"
  /\ Action = "open_short"
  /\ DecidedSize = 5
  /\ position_size = 0
  /\ success
  /\ calls.market = 0

\* the comparison execute_trade makes before the bracket
DirectionCheckFails(action, tp_price, sl_price, entry) ==
  IF action = "open_long"
  THEN Le(tp_price, entry) \/ Ge(sl_price, entry)
  ELSE Ge(tp_price, entry) \/ Le(sl_price, entry)

\* C15: when the direction check fails after the opening order was accepted,
\* execute_trade returns False, issues no conditional order request and no
\* closing order: the step leaves the exchange as it is, so the position
\* remains open and unprotected.
C15_InvalidDirectionLeavesPosition ==
  /\ [](outcome = "invalid" =>
          /\ pc = "sleep"
          /\ calls.market = 1
          /\ calls.algo = 0
          /\ ~success
          /\ DirectionCheckFails(Action, TpPrice, SlPrice, entry_price))
  /\ [][(/\ pc = "entry"
         /\ pc' \notin {"entry", "stopped"}
         /\ DirectionCheckFails(Action, TpPrice, SlPrice, entry_price'))
        => /\ pc' = "sleep"
           /\ outcome' = "invalid"
           /\ calls' = calls
           /\ exch_vars' = exch_vars]_vars

C15_Witness ==
  /\ pc = "sleep"
  /\ outcome = "invalid"
  /\ Action = "open_long"
  /\ entry_price = 3500
  /\ TpPrice = 3400
  /\ SlPrice = 3600
  /\ exPend + exPos > 0
  /\ PendingAlgo = {}

\* C16: in one cycle at most one market order request is sent; when it is
\* rejected or the transport fails it is not retried, no entry-price
\* polling and no conditional order request follow, and the cycle returns
\* the long interval.
C16_SingleOrderAttempt ==
  /\ calls.market <= 1
  /\ (calls.market = 1 /\ ~success /\ outcome # "invalid") =>
       /\ pc = "sleep"
       /\ outcome = "rejected"
       /\ resolver = NoResolver
       /\ calls.algo = 0
       /\ next_interval = AI_FREQUENCY

C16_Witness ==
  /\ pc = "sleep"
  /\ outcome = "rejected"
  /\ calls.market = 1
  /\ ~success
  /\ exPend = 0
  /\ exPos = 0


(***************************************************************************)
(* _place_order on its own: called with an action and a size of a bounded  *)
(* set against an exchange with nothing open.                              *)
(***************************************************************************)
OrderActions == {"open_long", "open_short", "close_long", "hold"}
OrderSizes == {0, 1, 5, 9, 10, 11, 20, 50, 100, 1000, 5000, NaN}

PlaceOrder ==
  /\ pc = "place_order"
  /\ \E request_ok \in BOOLEAN :
       LET placed == place_order(Action, position_size, request_ok)
       IN  /\ calls' = [calls EXCEPT
                          !.market = @ + IF placed.sent THEN 1 ELSE 0]
           /\ exPend' = IF placed.sent /\ placed.result
                        THEN exPend + 1 ELSE exPend
           /\ success' = placed.result
           /\ pc' = "placed"
  /\ UNCHANGED <<exPos, exAlgo, solo_vars, has_pending, gate_view,
                 gate_failed, current_price, ai_decision, next_interval,
                 outcome, order_on_exposure, position_size, entry_price,
                 attempt, resolver, retry_wait, settle_wait, submit_failed,
                 algo_log,
                 current_tp_sl_orders>>

PlaceOrderInit ==
  /\ exPend = 0
  /\ exPos = 0
  /\ exAlgo = [id \in Ids |-> "free"]
  /\ pc = "place_order"
  /\ has_pending = FALSE
  /\ gate_view = NoView
  /\ gate_failed = FALSE
  /\ current_price = 0
  /\ ai_decision \in {ValidReply(a, 50, 3400, 3600) : a \in OrderActions}
  /\ next_interval = 0
  /\ outcome = "none"
  /\ calls = NoCalls
  /\ order_on_exposure = FALSE
  /\ position_size \in OrderSizes
  /\ entry_price = 0
  /\ attempt = 0
  /\ resolver = NoResolver
  /\ retry_wait = 0
  /\ settle_wait = 0
  /\ submit_failed = FALSE
  /\ algo_log = NoAlgoLog
  /\ success = FALSE
  /\ current_tp_sl_orders = NoOrders
  /\ response = NoResponse
  /\ parsed = NoDecision
  /\ brace_value = JInvalid
  /\ last_profit = 0
  /\ twin_profit = 0
  /\ twin_decision = NoDecision
  /\ cancel_run = NoCancelRun

PlaceOrderNext == PlaceOrder

PlaceOrderSpec == PlaceOrderInit /\ [][PlaceOrderNext]_vars

\* C17: when the quantity converted at 0.1 ETH per lot is below the minimum
\* lot size 0.01, _place_order sends no request to the exchange and returns
\* False instead of raising.
C17_BelowMinimumLotNotSent ==
  (/\ pc = "placed"
   /\ position_size # NaN
   /\ position_size * 1000 < MIN_CONTRACT_SIZE * CONTRACT_VALUE) =>
    /\ calls.market = 0
    /\ exPend = 0
    /\ ~success

C17_Witness ==
  /\ pc = "placed"
  /\ Action = "open_long"
  /\ position_size = 9
  /\ calls.market = 0
  /\ ~success


\* the resolver has returned in this cycle
Resolved == resolver.reads > 0 /\ pc # "entry"

\* C18: _get_entry_price_with_retry reads the position at most 5 times,
\* returns the entry price at the first valid reading without reading
\* further, waits 2 seconds only between consecutive readings, and returns
\* None iff none of the 5 readings is valid.
C18_EntryPriceResolver ==
  /\ resolver.reads <= ENTRY_MAX_RETRIES
  /\ resolver.reads <= 5
  /\ resolver.first_valid # 0 =>
       /\ pc # "entry"
       /\ resolver.reads = resolver.first_valid
       /\ resolver.result \in EntryPrices \ {0}
  /\ Resolved => resolver.waited = ENTRY_WAIT_SECONDS * (resolver.reads - 1)
  /\ Resolved => resolver.waited = 2 * (resolver.reads - 1)
  /\ Resolved =>
       (resolver.result = 0 <=> (resolver.reads = 5 /\ resolver.first_valid = 0))

C18_Witness ==
  /\ Resolved
  /\ resolver.reads = 3
  /\ resolver.first_valid = 3
  /\ resolver.result = 3500
  /\ resolver.waited = 4

\* C19: when the resolver is exhausted, execute_trade takes the
\* current_price the cycle passed in as the entry price and goes on to the
\* direction check and, when that passes, to the bracket.
C19_FallbackToCurrentPrice ==
  (Resolved /\ resolver.result = 0) =>
    /\ entry_price = current_price
    /\ current_price \in KlineCloses \cup {KLINE_FALLBACK_CLOSE}
    /\ IF DirectionCheckFails(Action, TpPrice, SlPrice, current_price)
       THEN pc = "sleep" /\ outcome = "invalid"
       ELSE pc = "bracket" /\ attempt = 0

C19_Witness ==
  /\ Resolved
  /\ resolver.result = 0
  /\ resolver.reads = 5
  /\ entry_price = 3505
  /\ pc = "bracket"

\* C20: every invocation of _place_tp_sl_orders_with_retry ends, unless the
\* process is interrupted, in Protected (True, both recorded ids found
\* pending by the verification) or in Failed (False after exactly 5
\* attempts, the 5-second retry delay between consecutive attempts); there
\* is no third outcome.
C20_BracketProtectedOrFailed ==
  /\ []((pc = "sleep" /\ outcome = "failed") =>
          /\ attempt + 1 = TPSL_MAX_RETRIES
          /\ attempt + 1 = 5
          /\ retry_wait = TPSL_RETRY_SECONDS * attempt)
  /\ []((pc = "sleep" /\ outcome = "protected") =>
          /\ attempt + 1 <= TPSL_MAX_RETRIES
          /\ retry_wait = TPSL_RETRY_SECONDS * attempt
          /\ current_tp_sl_orders # NoOrders)
  /\ [][(pc = "verify" /\ pc' = "sleep" /\ outcome' = "protected") =>
          {current_tp_sl_orders.tp_algo_id, current_tp_sl_orders.sl_algo_id}
            \subseteq PendingAlgo]_vars
  /\ [][(pc \in {"bracket", "verify"}) =>
          (pc' \in {"bracket", "verify", "stopped"}
           \/ (pc' = "sleep" /\ outcome' \in {"protected", "failed"}))]_vars
  /\ (pc = "bracket") ~>
       (pc = "stopped" \/ (pc = "sleep" /\ outcome \in {"protected", "failed"}))

C20_Witness ==
  /\ pc = "sleep"
  /\ outcome = "failed"
  /\ attempt = 4
  /\ retry_wait = 20
  /\ success


\* the two ids the executor recorded for its bracket
BracketIds ==
  {current_tp_sl_orders.tp_algo_id, current_tp_sl_orders.sl_algo_id}

\* C21: _place_tp_sl_orders_with_retry returns True from its retry loop only
\* out of the verification of an attempt, and that attempt is one whose two
\* requests each returned an id, which then slept the settle delay of 5
\* seconds, and whose query of the pending conditional orders, made after
\* that, held both of those ids; the attempt and its ids stay the same from
\* the submission to the verification.
C21_ProtectedThroughSettleVerify ==
  /\ [][(outcome' = "protected" /\ outcome # "protected") =>
          /\ pc = "verify"
          /\ 0 \notin BracketIds
          /\ BracketIds \subseteq PendingAlgo
          /\ exAlgo' = exAlgo
          /\ attempt' = attempt
          /\ settle_wait' = settle_wait]_vars
  /\ [][(pc' = "verify" /\ pc # "verify") =>
          /\ pc = "bracket"
          /\ attempt' = attempt
          /\ settle_wait' = settle_wait + TPSL_SETTLE_SECONDS
          /\ TPSL_SETTLE_SECONDS = 5
          /\ current_tp_sl_orders'.tp_algo_id # current_tp_sl_orders'.sl_algo_id
          /\ exAlgo[current_tp_sl_orders'.tp_algo_id] = "free"
          /\ exAlgo'[current_tp_sl_orders'.tp_algo_id] = "tp"
          /\ exAlgo[current_tp_sl_orders'.sl_algo_id] = "free"
          /\ exAlgo'[current_tp_sl_orders'.sl_algo_id] = "sl"]_vars
  /\ [][(pc = "verify" /\ pc' \in {"verify", "sleep"}) =>
          /\ attempt' = attempt
          /\ settle_wait' = settle_wait
          /\ current_tp_sl_orders' = current_tp_sl_orders]_vars

\* protected by the second attempt; the first one was submitted and slept
\* its settle delay, but its verification found an id missing
C21_Witness ==
  /\ pc = "sleep"
  /\ outcome = "protected"
  /\ attempt = 1
  /\ settle_wait = 10
  /\ ~submit_failed
  /\ BracketIds \subseteq PendingAlgo


\* the step that ends an attempt of the bracket manager without success:
\* the retry delay and the next attempt while one remains, else False to
\* execute_trade, which returns the result of its market order
NextAttemptOrFailed ==
  IF attempt < TPSL_MAX_RETRIES - 1
  THEN /\ pc' = "bracket"
       /\ attempt' = attempt + 1
       /\ retry_wait' = retry_wait + TPSL_RETRY_SECONDS
       /\ outcome' = outcome
       /\ success' = success
  ELSE /\ pc' = "sleep"
       /\ outcome' = "failed"
       /\ attempt' = attempt
       /\ success' = success

\* C22: in _place_tp_sl_orders_with_retry, a verification that misses an id,
\* a verification whose query failed, and an exception raised while either
\* conditional order is submitted each lead to the next attempt if one
\* remains (else to the result False); none of them leaves the loop as an
\* exception: execute_trade goes on with the result of its market order.
C22_FailedAttemptRetries ==
  /\ [][(/\ pc = "verify"
         /\ pc' \notin {"verify", "stopped"}
         /\ ~(BracketIds \subseteq PendingAlgo)) => NextAttemptOrFailed]_vars
  /\ [][(/\ pc = "verify"
         /\ pc' \notin {"verify", "stopped"}
         /\ outcome' # "protected") => NextAttemptOrFailed]_vars
  /\ [][(/\ pc = "bracket"
         /\ pc' \notin {"verify", "stopped"}
         /\ (pc' # pc \/ attempt' # attempt)) =>
          (NextAttemptOrFailed /\ submit_failed')]_vars
  /\ [](pc \in {"bracket", "verify"} => success)

\* the third attempt begins: of the first two, one raised while it
\* submitted its orders, the other was submitted and not verified
C22_Witness ==
  /\ pc = "bracket"
  /\ attempt = 2
  /\ submit_failed
  /\ settle_wait = TPSL_SETTLE_SECONDS
  /\ retry_wait = 2 * TPSL_RETRY_SECONDS
  /\ success


\* C23: when every submission of _place_tp_sl_orders_with_retry succeeded
\* and no verification found the ids, it returns False after exactly 5
\* submissions, each followed by its settle delay, and the delays it slept
\* (settle delays and retry delays) add up to at least 25 seconds.
C23_FailedAfterFiveSubmissions ==
  (pc = "sleep" /\ outcome = "failed" /\ ~submit_failed) =>
    /\ attempt + 1 = 5
    /\ settle_wait = 5 * TPSL_SETTLE_SECONDS
    /\ retry_wait = 4 * TPSL_RETRY_SECONDS
    /\ settle_wait + retry_wait >= 25

C23_Witness ==
  /\ pc = "sleep"
  /\ outcome = "failed"
  /\ ~submit_failed
  /\ attempt = 4
  /\ settle_wait + retry_wait = 45


\* C24: when _place_tp_sl_orders_with_retry returned False, execute_trade
\* sends nothing more to the exchange (the step that ends in "failed"
\* neither closes the position nor cancels an order, and none follows in the
\* cycle), returns the True of its market order, and run_dynamic_cycle
\* returns AI_FREQUENCY; the loop goes on with the next cycle.
C24_FailedBracketLeavesPositionOpen ==
  /\ []((pc = "sleep" /\ outcome = "failed") =>
          /\ success
          /\ calls.market = 1
          /\ next_interval = AI_FREQUENCY
          /\ next_interval = 300)
  /\ [][(outcome' = "failed" /\ outcome # "failed") =>
          /\ exPend' = exPend
          /\ exPos' = exPos
          /\ \A id \in Ids : exAlgo[id] # "free" => exAlgo'[id] = exAlgo[id]]_vars
  /\ [][(pc = "sleep" /\ outcome = "failed" /\ pc' # "sleep") =>
          /\ exch_vars' = exch_vars
          /\ pc' \in {"start", "stopped"}]_vars

\* the cycle ended with its position open and no conditional order pending
C24_Witness ==
  /\ pc = "sleep"
  /\ outcome = "failed"
  /\ success
  /\ next_interval = 300
  /\ exPos > 0
  /\ PendingAlgo = {}


\* C25: a cycle sends a conditional order request only after its own market
\* order request was accepted and _get_entry_price_with_retry returned (with
\* a price, or with None replaced by the current price); a cycle whose
\* market order was rejected, or that sent none, sends no such request.
C25_BracketOnlyAfterOpening ==
  /\ []((pc \in {"bracket", "verify"} \/ calls.algo > 0) =>
          /\ calls.market = 1
          /\ success
          /\ ~has_pending
          /\ Gt(entry_price, 0))
  /\ []((calls.market = 0 \/ outcome = "rejected") =>
          /\ calls.algo = 0
          /\ pc \notin {"bracket", "verify"})
  /\ [][(calls'.algo # calls.algo /\ pc' # "start" /\ pc' # "stopped") =>
          /\ pc = "bracket"
          /\ calls.market = 1
          /\ success]_vars
  /\ [][(pc' = "bracket" /\ pc \notin {"bracket", "verify"}) =>
          /\ pc = "entry"
          /\ calls.market = 1
          /\ success
          /\ resolver'.reads > 0
          /\ entry_price' = entry_price_or_current(resolver'.result,
                                                   current_price)]_vars

\* both conditional orders of the first attempt are on the book
C25_Witness ==
  /\ pc = "verify"
  /\ attempt = 0
  /\ calls.market = 1
  /\ calls.algo = 1
  /\ success
  /\ entry_price = 3500
  /\ BracketIds \subseteq PendingAlgo


\* C26: the executor's record current_tp_sl_orders is emptied only when
\* none of its orders is pending any more or no position is open, and it is
\* empty once the position has closed: a cycle whose gate found the account
\* without any exposure holds no record of a bracket.
C26_RecordDestroyedWithBracket ==
  /\ [][(/\ current_tp_sl_orders # NoOrders
         /\ current_tp_sl_orders' = NoOrders
         /\ pc' # "stopped") =>
          (BracketIds \cap PendingAlgo = {} \/ exPend + exPos = 0)]_vars
  /\ []((pc \in {"snapshot", "oracle", "execute"} /\ ~gate_failed) =>
          current_tp_sl_orders = NoOrders)


(***************************************************************************)
(* OKXDataCollector.cancel_all_algo_orders on its own: called for the      *)
(* instrument against an exchange that holds any set of conditional        *)
(* orders, which may trigger while the call runs.                          *)
(***************************************************************************)
\* cancel_algo_order: True unless the request raised; the exchange refuses
\* the cancellation of an order it does not hold
cancel_algo_order(algo_id, request_ok) ==
  request_ok /\ exAlgo[algo_id] # "free"

\* the query and the two early returns; every order of the list is one of
\* the instrument, which the query asked for
CancelAllBegin ==
  /\ pc = "cancel_all"
  /\ \E ok \in BOOLEAN :
       LET algo_orders == get_algo_orders(ok)
           target_orders == algo_orders
       IN  IF algo_orders = {} \/ target_orders = {}
           THEN /\ cancel_run' = [NoCancelRun EXCEPT !.listed = ok,
                                                     !.pending = PendingAlgo,
                                                     !.result = "true"]
                /\ pc' = "cancel_done"
           ELSE /\ cancel_run' = [listed |-> ok,
                                  pending |-> PendingAlgo,
                                  target_orders |-> target_orders,
                                  todo |-> target_orders,
                                  sent |-> {},
                                  success_count |-> 0,
                                  result |-> "none"]
                /\ pc' = "cancel_loop"
  /\ UNCHANGED <<exch_vars, has_pending, gate_view, gate_failed,
                 current_price, ai_decision, next_interval, outcome, calls,
                 order_on_exposure, exec_vars, parse_vars, profit_vars>>

\* one iteration of the loop over target_orders
CancelNextOrder ==
  /\ pc = "cancel_loop"
  /\ cancel_run.todo # {}
  /\ LET algo_id == MinId(cancel_run.todo)
     IN  \E request_ok \in BOOLEAN :
           LET cancelled == cancel_algo_order(algo_id, request_ok)
           IN  /\ exAlgo' = IF cancelled
                            THEN [exAlgo EXCEPT ![algo_id] = "free"]
                            ELSE exAlgo
               /\ cancel_run' =
                    [cancel_run EXCEPT
                       !.todo = @ \ {algo_id},
                       !.sent = @ \cup {algo_id},
                       !.success_count = IF cancelled THEN @ + 1 ELSE @]
  /\ UNCHANGED <<exPend, exPos, cycle_vars, exec_vars, parse_vars,
                 profit_vars>>

\* `return success_count == len(target_orders)`
CancelAllReturn ==
  /\ pc = "cancel_loop"
  /\ cancel_run.todo = {}
  /\ cancel_run' =
       [cancel_run EXCEPT
          !.result = IF cancel_run.success_count
                          = Cardinality(cancel_run.target_orders)
                     THEN "true" ELSE "false"]
  /\ pc' = "cancel_done"
  /\ UNCHANGED <<exch_vars, has_pending, gate_view, gate_failed,
                 current_price, ai_decision, next_interval, outcome, calls,
                 order_on_exposure, exec_vars, parse_vars, profit_vars>>

CancelInit ==
  /\ exPend = 0
  /\ exPos = 0
  /\ exAlgo \in [Ids -> {"free", "tp", "sl"}]
  /\ pc = "cancel_all"
  /\ has_pending = FALSE
  /\ gate_view = NoView
  /\ gate_failed = FALSE
  /\ current_price = 0
  /\ ai_decision = NoDecision
  /\ next_interval = 0
  /\ outcome = "none"
  /\ calls = NoCalls
  /\ order_on_exposure = FALSE
  /\ position_size = 0
  /\ entry_price = 0
  /\ attempt = 0
  /\ resolver = NoResolver
  /\ retry_wait = 0
  /\ settle_wait = 0
  /\ submit_failed = FALSE
  /\ algo_log = NoAlgoLog
  /\ success = FALSE
  /\ current_tp_sl_orders = NoOrders
  /\ response = NoResponse
  /\ parsed = NoDecision
  /\ brace_value = JInvalid
  /\ last_profit = 0
  /\ twin_profit = 0
  /\ twin_decision = NoDecision
  /\ cancel_run = NoCancelRun

CancelNext ==
  \/ CancelAllBegin
  \/ CancelNextOrder
  \/ CancelAllReturn
  \/ AlgoGone

CancelSpec == CancelInit /\ [][CancelNext]_vars

\* C27: cancel_all_algo_orders sends one cancel request for each
\* conditional order of the instrument that is pending when it is called,
\* whether or not an earlier cancel failed, and returns True exactly when
\* every one of them was cancelled by its request (True when none is
\* pending).
C27_CancelAllCancelsEach ==
  pc = "cancel_done" =>
    /\ cancel_run.sent = cancel_run.pending
    /\ cancel_run.result = "true" <=>
         cancel_run.success_count = Cardinality(cancel_run.pending)


\* C28: a KeyboardInterrupt stops the loop only between two cycles: the loop
\* is left from the start of a cycle or from the sleep after one, never from
\* inside a cycle, so never between an accepted market order and the end of
\* the bracket placement.
C28_InterruptOnlyBetweenCycles ==
  [][(pc' = "stopped" /\ pc # "stopped") => pc \in {"start", "sleep"}]_vars


(***************************************************************************)
(* Two executions of get_trading_decision that get the same reply of the   *)
(* oracle and differ in last_profit only.                                  *)
(***************************************************************************)
Profits == {0 - 25, 0, 40, NaN}

Decide ==
  /\ pc = "decide"
  /\ \E request_ok \in BOOLEAN : \E reply \in OracleReplies :
       /\ ai_decision' =
            get_trading_decision_of(last_profit, request_ok, reply)
       /\ twin_decision' =
            get_trading_decision_of(twin_profit, request_ok, reply)
  /\ pc' = "decided"
  /\ UNCHANGED <<exch_vars, has_pending, gate_view, gate_failed,
                 current_price, next_interval, outcome, calls,
                 order_on_exposure, exec_vars, parse_vars, last_profit,
                 twin_profit, cancel_vars>>

ProfitInit ==
  /\ exPend = 0
  /\ exPos = 0
  /\ exAlgo = [id \in Ids |-> "free"]
  /\ pc = "decide"
  /\ has_pending = FALSE
  /\ gate_view = NoView
  /\ gate_failed = FALSE
  /\ current_price = 0
  /\ ai_decision = NoDecision
  /\ next_interval = 0
  /\ outcome = "none"
  /\ calls = NoCalls
  /\ order_on_exposure = FALSE
  /\ position_size = 0
  /\ entry_price = 0
  /\ attempt = 0
  /\ resolver = NoResolver
  /\ retry_wait = 0
  /\ settle_wait = 0
  /\ submit_failed = FALSE
  /\ algo_log = NoAlgoLog
  /\ success = FALSE
  /\ current_tp_sl_orders = NoOrders
  /\ response = NoResponse
  /\ parsed = NoDecision
  /\ brace_value = JInvalid
  /\ last_profit \in Profits
  /\ twin_profit \in Profits
  /\ twin_decision = NoDecision
  /\ cancel_run = NoCancelRun

ProfitNext == Decide

ProfitSpec == ProfitInit /\ [][ProfitNext]_vars

OpenedPosition == calls.market = 1 /\ success

\* C30 as stated: the interval a cycle returns is the short one when the
\* cycle found exposure or opened a position, and the long one only when it
\* did neither.
C30_ShortAfterExposureOrAction ==
  pc = "sleep" =>
    /\ (has_pending \/ OpenedPosition) =>
         next_interval = CHECK_PENDING_ORDERS_INTERVAL
    /\ next_interval = AI_FREQUENCY => (~has_pending /\ ~OpenedPosition)

\* C30: the interval a cycle returns is the short one exactly when its gate
\* found exposure; a cycle that opened a position returns the long one, as
\* does every other cycle the gate let through.
C30_ShortOnlyOnExposure ==
  pc = "sleep" =>
    /\ has_pending <=> next_interval = CHECK_PENDING_ORDERS_INTERVAL
    /\ ~has_pending <=> next_interval = AI_FREQUENCY
    /\ OpenedPosition => next_interval = AI_FREQUENCY
    /\ has_pending => calls.market = 0

\* a cycle that opened and protected its position, before the long sleep
C30_Witness ==
  /\ pc = "sleep"
  /\ OpenedPosition
  /\ outcome = "protected"
  /\ next_interval = 300
  /\ exPos > 0
  /\ BracketIds \subseteq PendingAlgo


(***************************************************************************)
(* OKXTradingExecutor.execute_trade on its own: one call, with a decision  *)
(* of get_trading_decision and a current price, against the exchange; its  *)
(* requests are counted.                                                   *)
(***************************************************************************)
ExecInit ==
  /\ exPend = 0
  /\ exPos \in {0, 1}
  /\ exAlgo = [id \in Ids |-> "free"]
  /\ pc = "execute"
  /\ has_pending = FALSE
  /\ gate_view = NoView
  /\ gate_failed = FALSE
  /\ current_price \in KlineCloses \cup {KLINE_FALLBACK_CLOSE}
  /\ ai_decision \in {get_trading_decision(request_ok, reply) :
                        request_ok \in BOOLEAN, reply \in OracleReplies}
  /\ next_interval = 0
  /\ outcome = "none"
  /\ calls = [NoCalls EXCEPT !.snapshot = 1, !.oracle = 1]
  /\ order_on_exposure = FALSE
  /\ position_size = 0
  /\ entry_price = 0
  /\ attempt = 0
  /\ resolver = NoResolver
  /\ retry_wait = 0
  /\ settle_wait = 0
  /\ submit_failed = FALSE
  /\ algo_log = NoAlgoLog
  /\ success = FALSE
  /\ current_tp_sl_orders = NoOrders
  /\ response = NoResponse
  /\ parsed = NoDecision
  /\ brace_value = JInvalid
  /\ last_profit = 0
  /\ twin_profit = 0
  /\ twin_decision = NoDecision
  /\ cancel_run = NoCancelRun

ExecNext ==
  \/ ExecuteTrade
  \/ GetEntryPrice
  \/ PlaceTpSlLogged
  \/ VerifyTpSlLogged
  \/ Fill
  \/ AlgoGone
  \/ PositionClosed

ExecSpec == ExecInit /\ [][ExecNext]_vars


\* a step of the bracket manager, as opposed to one of the exchange
BracketStep ==
  /\ pc \in {"bracket", "verify"}
  /\ pc' # "stopped"
  /\ (pc' # pc \/ attempt' # attempt)

\* C31: _place_tp_sl_orders_with_retry never cancels: no step of it takes a
\* pending conditional order off the exchange, and the orders an attempt
\* places are fresh ones, added to whatever earlier attempts left pending.
C31_NoReconciliation ==
  /\ [][BracketStep =>
          \A id \in Ids : exAlgo[id] # "free" => exAlgo'[id] = exAlgo[id]]_vars
  /\ [][(pc = "bracket" /\ pc' = "verify") =>
          /\ BracketIds' \cap PendingAlgo = {}
          /\ PendingAlgo' = PendingAlgo \cup BracketIds']_vars
  /\ [][(BracketStep /\ pc = "bracket" /\ pc' # "verify") =>
          PendingAlgo \subseteq PendingAlgo']_vars

\* a later attempt has placed a take-profit while both orders of an earlier,
\* unverified attempt are still pending
C31_Witness ==
  /\ pc = "bracket"
  /\ attempt >= 2
  /\ BracketIds \subseteq PendingAlgo
  /\ Cardinality(TpPending) = 2
  /\ Cardinality(SlPending) = 1


\* C32: in one attempt the take-profit request goes first and the stop-loss
\* request follows only when the take-profit was accepted: an attempt sends
\* one request and places nothing, or two requests and places the
\* take-profit, the stop-loss too when it succeeds; so the stop-loss orders
\* placed never outnumber the take-profit orders placed.
C32_StopLossFollowsTakeProfit ==
  /\ [](algo_log.sl_placed <= algo_log.tp_placed)
  /\ [](algo_log.tp_placed <= algo_log.requests)
  /\ [][algo_log'.requests # algo_log.requests =>
          \/ /\ algo_log'.requests = algo_log.requests + 1
             /\ algo_log'.tp_placed = algo_log.tp_placed
             /\ algo_log'.sl_placed = algo_log.sl_placed
             /\ exAlgo' = exAlgo
          \/ /\ algo_log'.requests = algo_log.requests + 2
             /\ algo_log'.tp_placed = algo_log.tp_placed + 1
             /\ algo_log'.sl_placed \in {algo_log.sl_placed,
                                         algo_log.sl_placed + 1}
             /\ Cardinality(TpPending') = Cardinality(TpPending) + 1]_vars
  /\ [][algo_log'.sl_placed # algo_log.sl_placed =>
          /\ algo_log'.tp_placed = algo_log.tp_placed + 1
          /\ current_tp_sl_orders'.tp_algo_id < current_tp_sl_orders'.sl_algo_id
          /\ exAlgo[current_tp_sl_orders'.sl_algo_id] = "free"
          /\ exAlgo'[current_tp_sl_orders'.sl_algo_id] = "sl"]_vars

\* a take-profit is pending and no stop-loss was ever placed
C32_Witness ==
  /\ pc = "bracket"
  /\ algo_log.tp_placed = 1
  /\ algo_log.sl_placed = 0
  /\ algo_log.requests = 2
  /\ TpPending # {}
  /\ SlPending = {}


\* C33: the requests of one call of execute_trade are bounded: at most one
\* market order, sent in the first step only; at most 5 position reads by
\* the entry-price resolver; at most 10 conditional order requests, 2 per
\* attempt over 5 attempts; and at most 5 verification queries.
C33_RequestsBounded ==
  /\ [](calls.market <= 1)
  /\ [][calls'.market # calls.market =>
          pc = "execute" /\ calls.market = 0 /\ calls'.market = 1]_vars
  /\ [](resolver.reads <= 5)
  /\ [](algo_log.requests <= 10)
  /\ [](algo_log.requests <= 2 * TPSL_MAX_RETRIES)
  /\ [](algo_log.queries <= 5)
  /\ [](algo_log.queries <= TPSL_MAX_RETRIES)
  /\ [](algo_log.queries <= algo_log.sl_placed)

\* all five attempts placed both orders and none of them was verified
C33_Witness ==
  /\ calls.market = 1
  /\ algo_log.requests = 10
  /\ algo_log.queries = 5
  /\ outcome = "failed"


\* replies of the oracle that no JSON tier accepts
HeuristicReplies ==
  {r \in OracleReplies :
     /\ r.is_text
     /\ ~(r.whole.kind # "invalid" /\ validate_decision_format(r.whole))
     /\ first_valid_match(r.matches, 1) = 0}

\* the decisions the heuristic tier builds from them
HeuristicDecisions ==
  {build_standard_decision_from_response(r) : r \in HeuristicReplies}

\* the objects json.loads yields from the replies of the oracle
JsonDecisions ==
  {r.whole : r \in OracleReplies}
  \cup UNION {{r.matches[i] : i \in 1..Len(r.matches)} : r \in OracleReplies}

\* whatever the action patterns capture, the heuristic tier leaves the size
\* and the prices 0
HeuristicSizeZero ==
  \A a \in ActionHits :
    build_standard_decision_from_response(
        Response(TRUE, JInvalid, <<>>, a,
                 <<NoMatch, NoMatch, NoMatch>>)).position_management
      = PmObj(0, 0, 0)

\* C34: a decision built by the heuristic tier has position_size 0 and zero
\* prices whatever action was extracted, and a cycle deciding by it sends no
\* market order and no conditional order; a cycle that sends a market order
\* decides by an object json.loads yielded and the validator accepted.
C34_HeuristicNeverOrders ==
  /\ pc = "oracle" =>
       /\ HeuristicSizeZero
       /\ \A d \in HeuristicDecisions :
            d.trading_decision.confidence_level = "medium"
  /\ (/\ ai_decision.trading_decision.confidence_level = "medium"
      /\ ai_decision \in HeuristicDecisions) =>
       /\ ai_decision.position_management = PmObj(0, 0, 0)
       /\ calls.market = 0
       /\ calls.algo = 0
       /\ pc \notin {"entry", "bracket", "verify"}
       /\ outcome \notin {"protected", "failed", "rejected", "invalid"}
  /\ calls.market = 1 =>
       /\ ai_decision \in JsonDecisions
       /\ validate_decision_format(ai_decision)

\* a cycle ended on a heuristic open_long without sending an order
C34_Witness ==
  /\ pc = "sleep"
  /\ ai_decision \in HeuristicDecisions
  /\ ai_decision.trading_decision.action = "open_long"
  /\ outcome = "zero"
  /\ calls.market = 0
  /\ calls.oracle = 1


\* what get_trading_decision returns when the request fails, and when the
\* echo of the parsed decision fails
FailureDecisions ==
  {get_trading_decision(FALSE, r) : r \in OracleReplies}
  \cup {get_trading_decision(TRUE, r) :
          r \in {q \in OracleReplies : echo_raises(parse_ai_response(q))}}

\* C35: when the request to the oracle fails, or the echo of the parsed
\* decision fails, get_trading_decision returns a hold decision with
\* position_size 0; the cycle then sends no market order and no conditional
\* order and ends with the long interval.
C35_OracleFailureHolds ==
  /\ pc = "oracle" => FailureDecisions = {ai_failure_decision}
  /\ ai_decision = ai_failure_decision =>
       /\ ai_decision.trading_decision.action = "hold"
       /\ ai_decision.position_management.position_size = 0
       /\ calls.market = 0
       /\ calls.algo = 0
       /\ pc \in {"execute", "sleep"}
       /\ pc = "sleep" =>
            /\ outcome = "hold"
            /\ success
            /\ next_interval = AI_FREQUENCY
            /\ next_interval = 300

\* a cycle ended on the decision of a failed oracle call
C35_Witness ==
  /\ pc = "sleep"
  /\ calls.oracle = 1
  /\ ai_decision \in FailureDecisions
  /\ ai_decision.trading_decision.confidence_level = "low"
  /\ outcome = "hold"
  /\ next_interval = 300


\* C36: execute_trade returns True exactly when the action is hold, or the
\* clamped size is 0, or the opening order was accepted and the direction
\* check passed, whether the bracket ended protected or failed; it returns
\* False when the order failed, the direction check failed or the action is
\* unknown.
C36_ReturnValue ==
  pc = "sleep" =>
    /\ success <=>
         \/ ai_decision.trading_decision.action = "hold"
         \/ position_size = 0
         \/ outcome \in {"protected", "failed"}
    /\ outcome \in {"rejected", "invalid", "unknown"} => ~success


\* sizes a decision may carry, in units of 0.0001 ETH, and nan
DecisionSizes == 0..(MAX_ORDER_SIZE + 1) \cup {5000, NaN}

\* the clamp and the conversion over every size a decision may carry
ClampedSizesConvert ==
  \A size \in DecisionSizes :
    Gt(clamp_position_size(size), 0) =>
      /\ clamp_position_size(size) \in MIN_ORDER_SIZE..MAX_ORDER_SIZE
      /\ ~convert_eth_to_contracts(clamp_position_size(size)).raises
      /\ convert_eth_to_contracts(clamp_position_size(size)).contracts
           >= MIN_CONTRACT_SIZE

\* C37: every size that is greater than 0 after the clamp, which lies
\* between MIN_ORDER_SIZE and MAX_ORDER_SIZE, converts to at least the
\* minimum lot count of 0.01, so no order and no bracket sent from
\* execute_trade meets the minimum-lot rejection of
\* _convert_eth_to_contracts.
C37_ClampedSizeConverts ==
  /\ ClampedSizesConvert
  /\ convert_eth_to_contracts(MIN_ORDER_SIZE).contracts = MIN_CONTRACT_SIZE
  /\ (pc \in {"entry", "bracket", "verify"} \/ calls.market = 1) =>
       /\ Gt(position_size, 0)
       /\ ~convert_eth_to_contracts(position_size).raises
       /\ convert_eth_to_contracts(position_size).contracts >= 10
  /\ (pc = "sleep" /\ outcome = "rejected") => calls.market = 1

\* the largest size was converted for the order and for a bracket
C37_Witness ==
  /\ pc = "verify"
  /\ calls.market = 1
  /\ position_size = MAX_ORDER_SIZE
  /\ convert_eth_to_contracts(position_size).contracts = 100
  /\ algo_log.sl_placed = 1


\* C38: when the query that lists the pending conditional orders fails,
\* cancel_all_algo_orders returns False; it returns True only when the query
\* listed every conditional order pending at that time and each of them was
\* then cancelled.
C38_FailedListingReturnsFalse ==
  pc = "cancel_done" =>
    /\ ~cancel_run.listed => cancel_run.result = "false"
    /\ cancel_run.result = "true" =>
         /\ cancel_run.listed
         /\ cancel_run.target_orders = cancel_run.pending
         /\ cancel_run.sent = cancel_run.pending
         /\ cancel_run.success_count = Cardinality(cancel_run.pending)


(***************************************************************************)
(* OKXTradingExecutor.test_trading_module: the long round, then the short  *)
(* round; the bracket of each round is placed by the retry loop of         *)
(* PlaceTpSl and VerifyTpSl, which ends at pc = "sleep" with the value     *)
(* _place_tp_sl_orders_with_retry returns in outcome ("protected" for      *)
(* True, "failed" for False).  calls.market counts the opening orders sent *)
(* so far, so it tells the round.                                          *)
(***************************************************************************)
\* the round the self-test is in, by the opening orders it has sent
test_action(sent) == IF sent = 0 THEN "open_long" ELSE "open_short"

\* _place_order of the round, the wait, the entry price (read from the
\* position, else the current price: neither changes anything) and the entry
\* into the retry loop; a failed order returns False
TestOpen ==
  /\ pc = "test_open"
  /\ \E request_ok \in BOOLEAN :
       LET placed == place_order(test_action(calls.market), MIN_ORDER_SIZE,
                                 request_ok)
       IN  /\ (placed.sent /\ placed.result) => CanOpen
           /\ calls' = [calls EXCEPT
                          !.market = @ + IF placed.sent THEN 1 ELSE 0]
           /\ exPend' = IF placed.sent /\ placed.result
                        THEN exPend + 1 ELSE exPend
           /\ success' = placed.result
           /\ pc' = IF placed.result THEN "bracket" ELSE "test_done"
  /\ position_size' = MIN_ORDER_SIZE
  /\ attempt' = 0
  /\ retry_wait' = 0
  /\ settle_wait' = 0
  /\ submit_failed' = FALSE
  /\ outcome' = "none"
  /\ UNCHANGED <<exPos, exAlgo, solo_vars, has_pending, gate_view,
                 gate_failed, current_price, ai_decision, next_interval,
                 order_on_exposure, entry_price, resolver, algo_log,
                 current_tp_sl_orders>>

\* after the retry loop: False is returned when it returned False; else
\* _cancel_current_tp_sl_orders sends a cancel request for each recorded id,
\* looks at no result and clears the record
TestCancelBracket ==
  /\ pc = "sleep"
  /\ IF outcome = "failed"
     THEN /\ pc' = "test_done"
          /\ success' = FALSE
          /\ UNCHANGED <<exAlgo, current_tp_sl_orders>>
     ELSE /\ \E tp_request_ok, sl_request_ok \in BOOLEAN :
               LET tp == current_tp_sl_orders.tp_algo_id
                   sl == current_tp_sl_orders.sl_algo_id
               IN  exAlgo' =
                     [id \in Ids |->
                        IF \/ id = tp /\ cancel_algo_order(tp, tp_request_ok)
                           \/ id = sl /\ cancel_algo_order(sl, sl_request_ok)
                        THEN "free" ELSE exAlgo[id]]
          /\ current_tp_sl_orders' = NoOrders
          /\ pc' = "test_close"
          /\ UNCHANGED success
  /\ UNCHANGED <<exPend, exPos, solo_vars, has_pending, gate_view,
                 gate_failed, current_price, ai_decision, next_interval,
                 outcome, calls, order_on_exposure, position_size,
                 entry_price, attempt, resolver, retry_wait, settle_wait,
                 submit_failed, algo_log>>

\* _close_position: True without a request when the position read shows
\* size 0 (the read failed, or the order has not filled), True after an
\* accepted closing order, False after a rejected one; then the short round,
\* or the return
TestClose ==
  /\ pc = "test_close"
  /\ \E read_ok, request_ok \in BOOLEAN :
       LET position_info == get_position_info(read_ok, 3500)
           nothing == position_info.position_size = 0
           closed == nothing \/ request_ok
       IN  /\ exPos' = IF ~nothing /\ request_ok THEN exPos - 1 ELSE exPos
           /\ IF ~closed
              THEN pc' = "test_done" /\ success' = FALSE
              ELSE IF calls.market = 1
              THEN pc' = "test_open" /\ UNCHANGED success
              ELSE pc' = "test_done" /\ success' = TRUE
  /\ UNCHANGED <<exPend, exAlgo, solo_vars, has_pending, gate_view,
                 gate_failed, current_price, ai_decision, next_interval,
                 outcome, calls, order_on_exposure, position_size,
                 entry_price, attempt, resolver, retry_wait, settle_wait,
                 submit_failed, algo_log, current_tp_sl_orders>>

\* the self-test runs at startup on an account that holds nothing
SelfTestInit ==
  /\ exPend = 0
  /\ exPos = 0
  /\ exAlgo = [id \in Ids |-> "free"]
  /\ pc = "test_open"
  /\ has_pending = FALSE
  /\ gate_view = NoView
  /\ gate_failed = FALSE
  /\ current_price = 0
  /\ ai_decision = NoDecision
  /\ next_interval = 0
  /\ outcome = "none"
  /\ calls = NoCalls
  /\ order_on_exposure = FALSE
  /\ position_size = 0
  /\ entry_price = 0
  /\ attempt = 0
  /\ resolver = NoResolver
  /\ retry_wait = 0
  /\ settle_wait = 0
  /\ submit_failed = FALSE
  /\ algo_log = NoAlgoLog
  /\ success = FALSE
  /\ current_tp_sl_orders = NoOrders
  /\ response = NoResponse
  /\ parsed = NoDecision
  /\ brace_value = JInvalid
  /\ last_profit = 0
  /\ twin_profit = 0
  /\ twin_decision = NoDecision
  /\ cancel_run = NoCancelRun

SelfTestNext ==
  \/ TestOpen
  \/ PlaceTpSl
  \/ VerifyTpSl
  \/ TestCancelBracket
  \/ TestClose
  \/ Fill
  \/ AlgoGone
  \/ PositionClosed

SelfTestSpec == SelfTestInit /\ [][SelfTestNext]_vars

\* C39: on every return of test_trading_module, with True or with False, no
\* position it opened is still open (or still to fill) and no conditional
\* order it placed is still pending.
C39_SelfTestLeavesAccountClean ==
  [][(pc # "test_done" /\ pc' = "test_done") =>
       /\ exPos' = 0
       /\ exPend' = 0
       /\ PendingAlgo' = {}]_vars

=============================================================================
